---- MODULE Spec2Model ----
(***************************************************************************)
(* Task store, task lifecycle, partial update and maintenance job of the   *)
(* task management API (src/taskmanagement_app).                           *)
(*                                                                         *)
(* A task row is a record; the tasks table is the sequence `tasks`, whose  *)
(* index is the auto-increment primary key.  Every request handler is one  *)
(* action (one database session); create_task commits twice and is two    *)
(* actions.  Time is counted in hours.                                     *)
(***************************************************************************)
EXTENDS Integers, Sequences, FiniteSets, TLC

\* ------------------------------------------------------------------ bounds
MaxTasks == 1      \* rows the tasks table may hold
NumUsers == 2      \* rows of the users table, ids 1..NumUsers
MaxTime  == 60     \* the clock stops here
TickStep == 30     \* hours that pass between two observations of the clock

\* ------------------------------------------------------------- value sets
\* Python None / SQL NULL, for the text columns and the enum columns.
NULL == "null"
\* None for the ISO timestamp columns started_at / completed_at / due_date.
NoTime == 0 - 1
\* A due_date string that datetime.fromisoformat rejects.
BadDate == 0 - 2
\* None for assigned_to.
NoUser == 0
\* A due_date string without UTC offset ("2025-02-21T12:00:00"), which
\* datetime.fromisoformat parses to a naive datetime: Naive(t) is the string
\* whose wall-clock time read as UTC is t.
NaiveBase == 0 - 10
Naive(t) == NaiveBase - t
IsNaive(d) == d <= NaiveBase
\* The instant a due_date names, a naive one read as UTC
Instant(d) == IF IsNaive(d) THEN NaiveBase - d ELSE d

\* ------------------------------------------------------- program constants
ListLimit == 100       \* get_tasks(limit=100)
CleanupHours == 24     \* cleanup_old_tasks: cutoff = now - timedelta(hours=24)
RetentionDays == 7     \* process_completed_tasks: cutoff = now - timedelta(days=7)
DueWindowDays == 1     \* get_due_tasks: tomorrow = now + timedelta(days=1)
SoonHours == 6         \* process_due_tasks: soon = now + timedelta(hours=6)
WeightUnit == 336      \* weighted_random_choice: hours_remaining / 336.0; a weight
                       \* of the model is 336 times the weight of the code

TaskState == {"todo", "in_progress", "done", "archived"}
AssignmentType == {"any", "some", "one"}

Users == 1..NumUsers
\* One id beyond the users table: a reference to a user that does not exist.
UserIds == 1..(NumUsers + 1)
Times == 0..MaxTime

VARIABLES
    tasks,      \* the tasks table: Seq of task rows, tasks[i].id = i
    now,        \* datetime.now(timezone.utc), in hours
    creating,   \* create_task between its two commits: <<>> or <<[id, ids]>>
    last,       \* the latest HTTP call and its response
    mpc,        \* run_maintenance: where the running job stands ("idle": no run)
    mqueue,     \* run_maintenance: task ids the current pass has still to visit
    mnow,       \* process_due_tasks: the `now` it read before its loop
    mloaded,    \* process_single_task: <<>>, or <<row>>, the row as db.refresh
                \* loaded it into the session before the print
    forced,     \* history: ids of the rows whose state or started_at a payload has
                \* written (create with a state other than todo, update_task with
                \* a state or a started_at key) since the row was created or last
                \* reset
    schedulers, \* the AsyncIOScheduler instances created so far: Seq of
                \* [running, jobs]
    lifespan,   \* main.lifespan: "init" before start_scheduler(), "running" at
                \* the yield, "stopped" after stop_scheduler()
    principal   \* the payload of the token that the router's dependency let
                \* through for the request by id that is handled next

vars == <<tasks, now, creating, last, mpc, mqueue, mnow, mloaded, forced, schedulers,
          lifespan, principal>>

TaskIds == 1..Len(tasks)
\* Ids a request may name: every stored id and one that is not stored.
RequestIds == 1..(MaxTasks + 1)

\* get_task: the row, or None
Exists(id) == id \in TaskIds

\* ---------------------------------------------------------------- responses
\* op: the endpoint; id: the task id of the path (0: none); status: the HTTP status;
\* applied: the handler committed its change; detail: the error; pre: the task's
\* state when the handler read it; at: the time of the call.
NoCall ==
    [op |-> "none", id |-> 0, status |-> 0, applied |-> FALSE, detail |-> "",
     pre |-> NULL, at |-> 0]

Response(op, id, status, applied, detail, pre) ==
    [op |-> op, id |-> id, status |-> status, applied |-> applied, detail |-> detail,
     pre |-> pre, at |-> now]

PreState(id) == IF Exists(id) THEN tasks[id].state ELSE NULL

\* ------------------------------------------------------------------ schemas
\* TaskBase.validate_assignment_consistency: TRUE iff it raises nothing.
\* ids is assigned_user_ids as a set; None and [] are both the empty set.
validate_assignment_consistency(assignment_type, assigned_to, ids) ==
    CASE assignment_type = "one"  -> assigned_to # NoUser /\ ids = {}
      [] assignment_type = "some" -> ids # {} /\ assigned_to = NoUser
      [] assignment_type = "any"  -> assigned_to = NoUser /\ ids = {}
      [] OTHER -> FALSE

\* TaskUpdate field validation: min_length=1 for title and description (only
\* when the field is set), validate_due_date for due_date.
validate_due_date(v) == v # BadDate

TaskUpdateValid(p) ==
    /\ ("title" \in p.set => p.title # "")
    /\ ("description" \in p.set => p.description # "")
    /\ ("due_date" \in p.set => validate_due_date(p.due_date))

\* Task.model_validate(row) of the response: the ORM row has no attribute
\* assigned_user_ids, so the field is None unless update_task has just set it
\* on the instance (ids).
ResponseValid(row, ids) ==
    validate_assignment_consistency(row.assignment_type, row.assigned_to, ids)

\* --------------------------------------------------------------------- crud
get_user(user_id) == user_id \in Users

\* validate_user_references without the check of assigned_to
validate_user_references_assignee_unchecked(keys, d) ==
    /\ ("created_by" \in keys => get_user(d.created_by))
    /\ ("assigned_user_ids" \in keys => \A u \in d.assigned_user_ids : get_user(u))

\* validate_user_references: TRUE iff it raises nothing.  data is the set of
\* keys of the payload, d the payload.
validate_user_references(keys, d) ==
    /\ ("created_by" \in keys => get_user(d.created_by))
    /\ ("assigned_to" \in keys /\ d.assigned_to # NoUser => get_user(d.assigned_to))
    /\ ("assigned_user_ids" \in keys => \A u \in d.assigned_user_ids : get_user(u))

\* The row create_task inserts with its first commit.
NewTask(c) ==
    [title |-> c.title, description |-> c.description, state |-> c.state,
     due_date |-> c.due_date, reward |-> c.reward,
     started_at |-> NoTime, completed_at |-> NoTime,
     created_by |-> c.created_by, assignment_type |-> c.assignment_type,
     assigned_to |-> c.assigned_to, assigned_users |-> {}]

\* The state checks of the lifecycle operations
start_allowed(row) == row.state = "todo"

\* complete without the check that the task was started
complete_allowed_unstarted(row) == row.state \in {"todo", "in_progress"}

complete_allowed(row) == row.state = "in_progress"

\* archive_task without its first check
already_archived_unchecked(row) == FALSE

already_archived(row) == row.state = "archived"

\* archive_task letting a started task through
archive_allowed_started(row) == row.state \in {"done", "todo", "in_progress"}

archive_allowed(row) == row.state \in {"done", "todo"}

\* start_task without the timestamp
start_task_no_timestamp(row) ==
    [row EXCEPT !.state = "in_progress"]

start_task(row) ==
    [row EXCEPT !.state = "in_progress", !.started_at = now]

\* complete_task without the timestamp
complete_task_no_timestamp(row) ==
    [row EXCEPT !.state = "done"]

complete_task(row) ==
    [row EXCEPT !.state = "done", !.completed_at = now]

\* archive_task, after its two state checks
archive_task(row) ==
    [row EXCEPT !.state = "archived"]

\* reset_task_to_todo that keeps completed_at
reset_task_to_todo_keeps_completed(row) ==
    [row EXCEPT !.state = "todo", !.started_at = NoTime]

reset_task_to_todo(row) ==
    [row EXCEPT !.state = "todo", !.started_at = NoTime, !.completed_at = NoTime]

\* update_task writing every field of the body, set or not
\* (model_dump() without exclude_unset)
update_task_all_fields(row, p) ==
    [row EXCEPT
        !.title = p.title, !.description = p.description, !.state = p.state,
        !.due_date = p.due_date, !.reward = p.reward,
        !.assignment_type = p.assignment_type, !.assigned_to = p.assigned_to]

\* update_task's loop `for key, value in update_data.items(): setattr(...)`.
\* assigned_user_ids is no column of TaskModel: setattr leaves the row and the
\* task_assigned_users table as they are.
update_task(row, p) ==
    [row EXCEPT
        !.title = IF "title" \in p.set THEN p.title ELSE @,
        !.description = IF "description" \in p.set THEN p.description ELSE @,
        !.state = IF "state" \in p.set THEN p.state ELSE @,
        !.due_date = IF "due_date" \in p.set THEN p.due_date ELSE @,
        !.reward = IF "reward" \in p.set THEN p.reward ELSE @,
        !.started_at = IF "started_at" \in p.set THEN p.started_at ELSE @,
        !.assignment_type = IF "assignment_type" \in p.set THEN p.assignment_type ELSE @,
        !.assigned_to = IF "assigned_to" \in p.set THEN p.assigned_to ELSE @]

ForcedAfterUpdate(id, p) ==
    IF p.set \cap {"state", "started_at"} # {} THEN forced \cup {id} ELSE forced

\* ------------------------------------------------------------------- inputs
\* Request bodies of POST /tasks (TaskCreate).  created_at, started_at and
\* completed_at of the body are not read by create_task.
DefaultCreate ==
    [title |-> "a", description |-> "d", state |-> "todo", due_date |-> NoTime,
     reward |-> NULL, created_by |-> 1, assignment_type |-> "any",
     assigned_to |-> NoUser, assigned_user_ids |-> {}]

\* Bodies that vary the state and the due date (3: due within SoonHours of
\* time 0, overdue later; TaskCreate does not validate due_date)
LifecycleCreates ==
    {[DefaultCreate EXCEPT !.state = s, !.due_date = d] :
        s \in TaskState, d \in {NoTime, BadDate, 3, Naive(3)}}

\* Bodies that vary the creator and the assignment fields
AssignmentCreates ==
    {[DefaultCreate EXCEPT !.created_by = c, !.assignment_type = t, !.assigned_to = u,
                           !.assigned_user_ids = ids] :
        c \in {1, NumUsers + 1}, t \in AssignmentType, u \in {NoUser, 1},
        ids \in {{}, {1, 2}, {2, NumUsers + 1}}}

\* An update payload: `set` is model_fields_set (the keys of
\* model_dump(exclude_unset=True)), the other fields are the values; a field
\* that is not set is None.
Unset ==
    [set |-> {}, title |-> NULL, description |-> NULL, state |-> NULL,
     due_date |-> NoTime, reward |-> NULL, started_at |-> NoTime,
     assignment_type |-> NULL, assigned_to |-> NoUser, assigned_user_ids |-> {}]

\* Request bodies of PATCH /tasks/{id} (TaskUpdate): the empty body and
\* bodies with a state
StatePayloads ==
    {Unset} \cup {[Unset EXCEPT !.set = {"state"}, !.state = t] : t \in TaskState}

\* Bodies with text fields and a due date
FieldPayloads ==
    {[Unset EXCEPT !.set = {"title"}, !.title = t] : t \in {"", "b"}}
    \cup {[Unset EXCEPT !.set = {"description"}, !.description = ""]}
    \cup {[Unset EXCEPT !.set = {"title", "reward"}, !.title = "b", !.reward = "r"]}
    \cup {[Unset EXCEPT !.set = {"due_date"}, !.due_date = t] : t \in {NoTime, BadDate, 40}}

\* Bodies with assignment fields
AssignmentPayloads ==
    {[Unset EXCEPT !.set = {"assignment_type"}, !.assignment_type = t] :
            t \in AssignmentType}
    \cup {[Unset EXCEPT !.set = {"assigned_to"}, !.assigned_to = t] : t \in {NoUser} \cup UserIds}
    \cup {[Unset EXCEPT !.set = {"assigned_user_ids"}, !.assigned_user_ids = t] :
            t \in {{}, {1}, {2, NumUsers + 1}}}
    \cup {[Unset EXCEPT !.set = {"assignment_type", "assigned_to", "assigned_user_ids"},
                        !.assignment_type = "some", !.assigned_to = NoUser,
                        !.assigned_user_ids = t] : t \in {{1}, {2}, {1, 2}}}
    \cup {[Unset EXCEPT !.set = {"assignment_type", "assigned_to"},
                        !.assignment_type = t, !.assigned_to = u] :
            t \in {"one", "any"}, u \in {NoUser, 2}}

\* Request bodies of the tasks the random selection draws from: the due dates
\* lie on both sides of the limits of weighted_random_choice's bands (0, 24
\* and 168 hours, and 3024 hours where the weight reaches 1).
WeightSamples == {NoTime, 0, 1, 12, 24, 25, 48, 168, 169, 192, 744, 3024, 3100}

RandomCreates ==
    {[DefaultCreate EXCEPT !.state = s, !.due_date = d] :
        s \in {"todo", "done"}, d \in WeightSamples \cup {BadDate, Naive(3)}}

\* ---------------------------------------------------------------- endpoints
\* POST /tasks, to create_task's first commit: body validation (422),
\* validate_user_references (ValueError: 400), the insert.  A task of type
\* "some" gets its assigned users with a second commit (CreateAssign).
create_new_task(c) ==
    /\ creating = <<>>
    /\ UNCHANGED <<now, mpc, mqueue, mnow, mloaded, schedulers, lifespan, principal>>
    /\ IF ~validate_assignment_consistency(c.assignment_type, c.assigned_to,
                                           c.assigned_user_ids)
       THEN /\ last' = Response("create", 0, 422, FALSE, "validation", NULL)
            /\ UNCHANGED <<tasks, creating, forced>>
       ELSE IF ~validate_user_references({"created_by", "assigned_to",
                                          "assigned_user_ids"}, c)
       THEN /\ last' = Response("create", 0, 400, FALSE, "no such user", NULL)
            /\ UNCHANGED <<tasks, creating, forced>>
       ELSE /\ Len(tasks) < MaxTasks
            /\ tasks' = Append(tasks, NewTask(c))
            /\ forced' = IF c.state # "todo" THEN forced \cup {Len(tasks) + 1} ELSE forced
            /\ IF c.assignment_type = "some" /\ c.assigned_user_ids # {}
               THEN /\ creating' = <<[id |-> Len(tasks) + 1, ids |-> c.assigned_user_ids]>>
                    /\ last' = NoCall
               ELSE /\ creating' = <<>>
                    /\ last' = Response("create", Len(tasks) + 1, 200, TRUE, "", NULL)

\* create_task's second commit: db_task.assigned_users = users.  The response
\* is Task.model_validate(db_task); its ValidationError is a ValueError: 400.
CreateAssign ==
    /\ creating # <<>>
    /\ LET id == creating[1].id
           row == [tasks[id] EXCEPT !.assigned_users = {u \in Users : u \in creating[1].ids}]
       IN /\ tasks' = [tasks EXCEPT ![id] = row]
          /\ last' = IF ResponseValid(row, {})
                     THEN Response("create", id, 200, TRUE, "", NULL)
                     ELSE Response("create", id, 400, TRUE, "response validation", NULL)
    /\ creating' = <<>>
    /\ UNCHANGED <<now, mpc, mqueue, mnow, mloaded, forced, schedulers, lifespan, principal>>

\* The status of a handler that ends in Task.model_validate(row) and does not
\* catch its ValidationError.
Marshal(row) == IF ResponseValid(row, {}) THEN 200 ELSE 500

\* POST /tasks/{task_id}/start
start_task_endpoint(id) ==
    /\ UNCHANGED <<now, creating, mpc, mqueue, mnow, mloaded, forced, schedulers, lifespan,
                   principal>>
    /\ IF ~Exists(id)
       THEN /\ last' = Response("start", id, 404, FALSE, "Task not found", NULL)
            /\ UNCHANGED tasks
       ELSE IF ~start_allowed(tasks[id])
       THEN /\ last' = Response("start", id, 400, FALSE, "state", tasks[id].state)
            /\ UNCHANGED tasks
       ELSE /\ tasks' = [tasks EXCEPT ![id] = start_task(tasks[id])]
            /\ last' = Response("start", id, Marshal(tasks'[id]), TRUE, "", tasks[id].state)

\* POST /tasks/{task_id}/complete that stamps completed_at before it checks
\* the state
complete_task_endpoint_stamps_first(id) ==
    /\ UNCHANGED <<now, creating, mpc, mqueue, mnow, mloaded, forced, schedulers, lifespan,
                   principal>>
    /\ IF ~Exists(id)
       THEN /\ last' = Response("complete", id, 404, FALSE, "Task not found", NULL)
            /\ UNCHANGED tasks
       ELSE IF ~complete_allowed(tasks[id])
       THEN /\ last' = Response("complete", id, 400, FALSE, "state", tasks[id].state)
            /\ tasks' = [tasks EXCEPT ![id].completed_at = now]
       ELSE /\ tasks' = [tasks EXCEPT ![id] = complete_task(tasks[id])]
            /\ last' = Response("complete", id, Marshal(tasks'[id]), TRUE, "",
                                tasks[id].state)

\* POST /tasks/{task_id}/complete
complete_task_endpoint(id) ==
    /\ UNCHANGED <<now, creating, mpc, mqueue, mnow, mloaded, forced, schedulers, lifespan,
                   principal>>
    /\ IF ~Exists(id)
       THEN /\ last' = Response("complete", id, 404, FALSE, "Task not found", NULL)
            /\ UNCHANGED tasks
       ELSE IF ~complete_allowed(tasks[id])
       THEN /\ last' = Response("complete", id, 400, FALSE, "state", tasks[id].state)
            /\ UNCHANGED tasks
       ELSE /\ tasks' = [tasks EXCEPT ![id] = complete_task(tasks[id])]
            /\ last' = Response("complete", id, Marshal(tasks'[id]), TRUE, "",
                                tasks[id].state)

\* DELETE /tasks/{task_id} that deletes the row
delete_task_endpoint_hard(id) ==
    /\ UNCHANGED <<now, creating, mpc, mqueue, mnow, mloaded, forced, schedulers, lifespan,
                   principal>>
    /\ IF ~Exists(id)
       THEN /\ last' = Response("archive", id, 404, FALSE, "Task not found", NULL)
            /\ UNCHANGED tasks
       ELSE IF already_archived(tasks[id])
       THEN /\ last' = Response("archive", id, 400, FALSE, "already archived",
                                tasks[id].state)
            /\ UNCHANGED tasks
       ELSE IF ~archive_allowed(tasks[id])
       THEN /\ last' = Response("archive", id, 400, FALSE, "state", tasks[id].state)
            /\ UNCHANGED tasks
       ELSE /\ tasks' = SubSeq(tasks, 1, id - 1) \o SubSeq(tasks, id + 1, Len(tasks))
            /\ last' = Response("archive", id, 200, TRUE, "",
                                tasks[id].state)

\* DELETE /tasks/{task_id}: archive_task and its two TaskStatusErrors
delete_task_endpoint(id) ==
    /\ UNCHANGED <<now, creating, mpc, mqueue, mnow, mloaded, forced, schedulers, lifespan,
                   principal>>
    /\ IF ~Exists(id)
       THEN /\ last' = Response("archive", id, 404, FALSE, "Task not found", NULL)
            /\ UNCHANGED tasks
       ELSE IF already_archived(tasks[id])
       THEN /\ last' = Response("archive", id, 400, FALSE, "already archived",
                                tasks[id].state)
            /\ UNCHANGED tasks
       ELSE IF ~archive_allowed(tasks[id])
       THEN /\ last' = Response("archive", id, 400, FALSE, "state", tasks[id].state)
            /\ UNCHANGED tasks
       ELSE /\ tasks' = [tasks EXCEPT ![id] = archive_task(tasks[id])]
            /\ last' = Response("archive", id, Marshal(tasks'[id]), TRUE, "",
                                tasks[id].state)

\* PATCH /tasks/{task_id}/reset-to-todo
reset_task_to_todo_endpoint(id) ==
    /\ UNCHANGED <<now, creating, mpc, mqueue, mnow, mloaded, schedulers, lifespan, principal>>
    /\ IF ~Exists(id)
       THEN /\ last' = Response("reset", id, 404, FALSE, "Task not found", NULL)
            /\ UNCHANGED <<tasks, forced>>
       ELSE /\ tasks' = [tasks EXCEPT ![id] = reset_task_to_todo(tasks[id])]
            /\ forced' = forced \ {id}
            /\ last' = Response("reset", id, Marshal(tasks'[id]), TRUE, "", tasks[id].state)

\* PATCH /tasks/{task_id}: body validation (422), 404, update_task with its
\* validate_user_references (ValueError: 400), the commit, and the response
\* Task.model_validate(updated_task), whose ValidationError is a ValueError
\* too (400, after the commit).
update_task_endpoint(id, p) ==
    /\ UNCHANGED <<now, creating, mpc, mqueue, mnow, mloaded, schedulers, lifespan, principal>>
    /\ IF ~TaskUpdateValid(p)
       THEN /\ last' = Response("update", id, 422, FALSE, "validation", PreState(id))
            /\ UNCHANGED <<tasks, forced>>
       ELSE IF ~Exists(id)
       THEN /\ last' = Response("update", id, 404, FALSE, "Task not found", NULL)
            /\ UNCHANGED <<tasks, forced>>
       ELSE IF ~validate_user_references(p.set, p)
       THEN /\ last' = Response("update", id, 400, FALSE, "no such user", tasks[id].state)
            /\ UNCHANGED <<tasks, forced>>
       ELSE /\ tasks' = [tasks EXCEPT ![id] = update_task(tasks[id], p)]
            /\ forced' = ForcedAfterUpdate(id, p)
            /\ last' = IF ResponseValid(tasks'[id], p.assigned_user_ids)
                       THEN Response("update", id, 200, TRUE, "", tasks[id].state)
                       ELSE Response("update", id, 400, TRUE, "response validation",
                                     tasks[id].state)

\* Time passes between requests and between maintenance runs.
Tick ==
    /\ mpc = "idle"
    /\ creating = <<>>
    /\ now + TickStep <= MaxTime
    /\ now' = now + TickStep
    /\ last' = NoCall
    /\ UNCHANGED <<tasks, creating, mpc, mqueue, mnow, mloaded, forced, schedulers, lifespan,
                   principal>>

\* -------------------------------------------------------------- maintenance
\* ORDER BY due_date ASC NULLS LAST: due date d sorts no later than e (None
\* last; an unparseable string after the ISO strings).
DueLeq(d, e) ==
    IF e = NoTime THEN TRUE
    ELSE IF d = NoTime THEN FALSE
    ELSE IF e = BadDate THEN TRUE
    ELSE IF d = BadDate THEN FALSE
    ELSE Instant(d) <= Instant(e)

\* The orders of a set of rows
RECURSIVE TieOrders(_)
TieOrders(T) ==
    IF T = {} THEN {<<>>}
    ELSE UNION {{<<i>> \o q : q \in TieOrders(T \ {i})} : i \in T}

\* The orders a query may return the rows S in: sorted by due_date, rows of
\* equal due_date in any order.  Computed around the rows of the middle due
\* date: the rows that sort before them, these rows, the rows that sort after.
RECURSIVE Orderings(_)
Orderings(S) ==
    IF S = {} THEN {<<>>}
    ELSE LET Before(i) == {j \in S : ~DueLeq(tasks[i].due_date, tasks[j].due_date)}
             Same(i) == {j \in S : /\ DueLeq(tasks[i].due_date, tasks[j].due_date)
                                   /\ DueLeq(tasks[j].due_date, tasks[i].due_date)}
             mid == CHOOSE i \in S :
                       /\ 2 * Cardinality(Before(i)) <= Cardinality(S)
                       /\ 2 * Cardinality(Before(i) \cup Same(i)) >= Cardinality(S)
         IN {a \o t \o b : a \in Orderings(Before(mid)),
                            t \in TieOrders(Same(mid)),
                            b \in Orderings(S \ (Before(mid) \cup Same(mid)))}

Limit(q, n) == IF Len(q) <= n THEN q ELSE SubSeq(q, 1, n)

\* get_tasks(db, include_archived=False): no user filter, no state filter
get_tasks_not_archived ==
    {Limit(q, ListLimit) : q \in Orderings({i \in TaskIds : tasks[i].state # "archived"})}

\* ------------------------------------------------------------------ reading
\* The payload of a JWT: its role and its subject.  A subject is the email of
\* user u (the number u; NumUsers + 1: an email of no user) or a string that is
\* no email (0).
AdminToken == [role |-> "admin", sub |-> 0]

Tokens ==
    {AdminToken, [role |-> "superadmin", sub |-> 0], [role |-> "admin", sub |-> 1]}
    \cup {[role |-> "user", sub |-> u] : u \in 0..(NumUsers + 1)}

\* The router's dependency: TRUE iff it raises no 403
verify_not_superadmin(tok) == tok.role # "superadmin"

\* get_current_user resolving the subject of an admin token too
get_current_user_by_subject(tok) ==
    IF tok.sub \in Users THEN tok.sub ELSE NoUser

\* get_current_user: the id of the user row, or None
get_current_user(tok) ==
    IF tok.role \in {"admin", "superadmin"} \/ tok.sub = 0 THEN NoUser
    ELSE IF tok.sub \in Users THEN tok.sub
    ELSE NoUser

\* get_tasks: the visibility filter for user_id
visibility_filter(row, user_id, include_created) ==
    \/ row.assignment_type = "any"
    \/ row.assigned_to = user_id
    \/ include_created /\ row.created_by = user_id
    \/ user_id \in row.assigned_users

\* get_tasks applying the archived filter together with a state filter
get_tasks_archived_filter_always(include_archived, state, user_id, include_created) ==
    {Limit(q, ListLimit) : q \in Orderings({i \in TaskIds :
        /\ user_id # NoUser => visibility_filter(tasks[i], user_id, include_created)
        /\ state # NULL => tasks[i].state = state
        /\ include_archived \/ tasks[i].state # "archived"})}

\* get_tasks(db, skip=0, limit=100, include_archived, state, user_id,
\* include_created): the results the query may give
get_tasks(include_archived, state, user_id, include_created) ==
    {Limit(q, ListLimit) : q \in Orderings({i \in TaskIds :
        /\ user_id # NoUser => visibility_filter(tasks[i], user_id, include_created)
        /\ IF state # NULL THEN tasks[i].state = state
           ELSE include_archived \/ tasks[i].state # "archived"})}

Range(q) == {q[k] : k \in 1..Len(q)}

\* The response of a reading endpoint.  result: the rows the query gave, as
\* ids; token and the three parameters: the request.
ReadResponse(op, tok, include_archived, state, include_created, status, result) ==
    [op |-> op, id |-> 0, status |-> status, applied |-> FALSE, detail |-> "",
     pre |-> NULL, at |-> now, token |-> tok, include_archived |-> include_archived,
     state |-> state, include_created |-> include_created, result |-> result]

\* [Task.model_validate(task) for task in db_tasks]: 200, or an uncaught
\* ValidationError
MarshalAll(q) == IF \A i \in Range(q) : ResponseValid(tasks[i], {}) THEN 200 ELSE 500

Max(a, b) == IF a >= b THEN a ELSE b
Min(a, b) == IF a <= b THEN a ELSE b

\* weighted_random_choice with the band of the later due dates running down
\* from 100
weight_late_band_from_100(row) ==
    IF row.due_date \in {NoTime, BadDate} THEN WeightUnit
    ELSE LET hours_remaining == row.due_date - now
         IN Max(WeightUnit,
                IF hours_remaining <= 0 THEN 1000 * WeightUnit
                ELSE IF hours_remaining <= 24
                THEN 1000 * WeightUnit - (hours_remaining * 900 * WeightUnit) \div 24
                ELSE IF hours_remaining <= 168
                THEN 100 * WeightUnit - ((hours_remaining - 24) * 90 * WeightUnit) \div 144
                ELSE 100 * WeightUnit - Min(9 * WeightUnit, hours_remaining))

\* weighted_random_choice: the weight of one task, times WeightUnit (the
\* divisions are exact for whole hours).  An unparseable due date is a
\* ValueError: weight 1.
weight(row) ==
    IF row.due_date \in {NoTime, BadDate} THEN WeightUnit
    ELSE LET hours_remaining == row.due_date - now
         IN Max(WeightUnit,
                IF hours_remaining <= 0 THEN 1000 * WeightUnit
                ELSE IF hours_remaining <= 24
                THEN 1000 * WeightUnit - (hours_remaining * 900 * WeightUnit) \div 24
                ELSE IF hours_remaining <= 168
                THEN 100 * WeightUnit - ((hours_remaining - 24) * 90 * WeightUnit) \div 144
                ELSE 10 * WeightUnit - Min(9 * WeightUnit, hours_remaining))

\* weighted_random_choice: `due_date - now` with a naive due date is a
\* TypeError, which it does not catch.
WeightRaises(S) == \E i \in S : IsNaive(tasks[i].due_date)

\* weighted_random_choice: the tasks random.choices may return
weighted_random_choice(S) == {i \in S : weight(tasks[i]) > 0}

\* The outcome of a random selection.  id: the task returned (0: none);
\* weights: the weight of every candidate; status of the crud function: 200 a
\* task, 404 None, 500 an exception.
RandomResponse(op, tok, status, id, weights) ==
    [op |-> op, id |-> id, status |-> status, applied |-> FALSE, detail |-> "",
     pre |-> NULL, at |-> now, token |-> tok, weights |-> weights]

\* crud.get_random_task(db)
get_random_task ==
    /\ UNCHANGED <<tasks, now, creating, mpc, mqueue, mnow, mloaded, forced, schedulers,
                   lifespan, principal>>
    /\ LET S == {i \in TaskIds : tasks[i].state \notin {"done", "archived"}}
       IN IF S = {}
          THEN last' = RandomResponse("get_random_task", AdminToken, 404, 0, <<>>)
          ELSE IF WeightRaises(S)
          THEN last' = RandomResponse("get_random_task", AdminToken, 500, 0, <<>>)
          ELSE \E i \in weighted_random_choice(S) :
                 last' = RandomResponse("get_random_task", AdminToken, 200, i,
                                        [j \in S |-> weight(tasks[j])])

\* GET /tasks/random/
get_random_task_endpoint(tok) ==
    /\ UNCHANGED <<tasks, now, creating, mpc, mqueue, mnow, mloaded, forced, schedulers,
                   lifespan, principal>>
    /\ IF ~verify_not_superadmin(tok)
       THEN last' = RandomResponse("random", tok, 403, 0, <<>>)
       ELSE \E q \in get_tasks(FALSE, NULL, get_current_user(tok), TRUE) :
              IF q = <<>>
              THEN last' = RandomResponse("random", tok, 404, 0, <<>>)
              ELSE IF WeightRaises(Range(q))
              THEN last' = RandomResponse("random", tok, 500, 0, <<>>)
              ELSE \E i \in weighted_random_choice(Range(q)) :
                     last' = RandomResponse("random", tok, Marshal(tasks[i]), i,
                                            [j \in Range(q) |-> weight(tasks[j])])

\* GET /tasks
read_tasks(tok, include_archived, state, include_created) ==
    /\ UNCHANGED <<tasks, now, creating, mpc, mqueue, mnow, mloaded, forced, schedulers,
                   lifespan, principal>>
    /\ IF ~verify_not_superadmin(tok)
       THEN last' = ReadResponse("list", tok, include_archived, state, include_created,
                                 403, <<>>)
       ELSE \E q \in get_tasks(include_archived, state, get_current_user(tok),
                                include_created) :
              last' = ReadResponse("list", tok, include_archived, state, include_created,
                                   MarshalAll(q), q)

\* GET /tasks/due/: get_tasks with the caller's visibility, then the rows due
\* within 24 hours or overdue.  fromisoformat of a string that is no date is a
\* ValueError, `due_date - now` with a naive due date a TypeError, and
\* Task.model_validate may raise a ValidationError: none is caught (500).
read_due_tasks(tok) ==
    /\ UNCHANGED <<tasks, now, creating, mpc, mqueue, mnow, mloaded, forced, schedulers,
                   lifespan, principal>>
    /\ IF ~verify_not_superadmin(tok)
       THEN last' = ReadResponse("due", tok, FALSE, NULL, TRUE, 403, <<>>)
       ELSE \E db_tasks \in get_tasks(FALSE, NULL, get_current_user(tok), TRUE) :
              LET Due(i) == /\ tasks[i].due_date # NoTime
                            /\ tasks[i].due_date - now <= 24
                  Raises(i) == /\ tasks[i].due_date # NoTime
                               /\ \/ tasks[i].due_date = BadDate
                                  \/ IsNaive(tasks[i].due_date)
                                  \/ Due(i) /\ ~ResponseValid(tasks[i], {})
              IN IF \E i \in Range(db_tasks) : Raises(i)
                 THEN last' = ReadResponse("due", tok, FALSE, NULL, TRUE, 500, <<>>)
                 ELSE last' = ReadResponse("due", tok, FALSE, NULL, TRUE, 200,
                                           SelectSeq(db_tasks, Due))

\* A str as the sequence of its characters; str.lower() on the characters the
\* bodies and queries below are written in.
lower(t) ==
    [k \in 1..Len(t) |-> IF t[k] = "A" THEN "a" ELSE IF t[k] = "B" THEN "b" ELSE t[k]]

\* Python's `pattern in text` on two str
Contains(pattern, text) ==
    \E k \in 0..(Len(text) - Len(pattern)) : SubSeq(text, k + 1, k + Len(pattern)) = pattern

\* search_tasks: search_pattern = f"%{q}%".lower()
search_pattern(q) == lower(<<"%">> \o q \o <<"%">>)

\* Bodies of POST /tasks whose title and description are written out, for
\* everyone or for user 1 alone
SearchCreates ==
    {[DefaultCreate EXCEPT !.title = t, !.description = <<"d", "B">>,
                           !.assignment_type = a[1], !.assigned_to = a[2]] :
        t \in {<<"A", "b">>, <<"%", "a", "%">>, <<"x">>},
        a \in {<<"any", NoUser>>, <<"one", 1>>}}

\* Values of the query parameter q
SearchQueries == {<<"a">>, <<"A", "B">>, <<"b">>, <<"z">>}

SearchResponse(tok, q, include_archived, status, result) ==
    [op |-> "search", id |-> 0, status |-> status, applied |-> FALSE, detail |-> "",
     pre |-> NULL, at |-> now, token |-> tok, include_archived |-> include_archived,
     q |-> q, result |-> result]

\* GET /tasks/search/: get_tasks with the caller's visibility, then the rows
\* whose lowered title or description contains search_pattern
search_tasks(tok, q, include_archived) ==
    /\ UNCHANGED <<tasks, now, creating, mpc, mqueue, mnow, mloaded, forced, schedulers,
                   lifespan, principal>>
    /\ IF ~verify_not_superadmin(tok)
       THEN last' = SearchResponse(tok, q, include_archived, 403, <<>>)
       ELSE \E db_tasks \in get_tasks(include_archived, NULL, get_current_user(tok), TRUE) :
              LET Matches(i) == \/ Contains(search_pattern(q), lower(tasks[i].title))
                                \/ Contains(search_pattern(q), lower(tasks[i].description))
                  filtered_tasks == SelectSeq(db_tasks, Matches)
              IN last' = SearchResponse(tok, q, include_archived,
                                        MarshalAll(filtered_tasks), filtered_tasks)

\* The test of the loop of cleanup_old_tasks and of process_completed_tasks on
\* the row db.refresh has read: done, and completed before the cutoff.
CompletedBefore(row, hours) ==
    row.state = "done" /\ row.completed_at # NoTime /\ row.completed_at < now - hours

\* run_maintenance that begins with process_due_tasks
run_maintenance_due_first ==
    /\ mpc = "idle"
    /\ mpc' = "due_query"
    /\ mqueue' = <<>>
    /\ last' = NoCall
    /\ UNCHANGED <<tasks, now, creating, mnow, mloaded, forced, schedulers, lifespan, principal>>

\* run_maintenance is called (the hourly job, or POST /tasks/maintenance); it
\* opens with the query of cleanup_old_tasks.
run_maintenance ==
    /\ mpc = "idle"
    /\ mpc' = "cleanup"
    /\ mqueue' \in get_tasks_not_archived
    /\ last' = NoCall
    /\ UNCHANGED <<tasks, now, creating, mnow, mloaded, forced, schedulers, lifespan, principal>>

\* cleanup_old_tasks, a step of its loop: db.refresh and the test of the row
\* (at "cleanup"), or archive_task for the row that passed the test (at
\* "cleanup_archive").  archive_task finds the row in the session as the
\* refresh loaded it, so its own state checks pass, and its commit writes the
\* column state whatever another session has committed since the refresh.
\* After the last row, the query of process_completed_tasks.
cleanup_old_tasks ==
    /\ mpc \in {"cleanup", "cleanup_archive"}
    /\ last' = NoCall
    /\ UNCHANGED <<now, creating, mnow, mloaded, forced, schedulers, lifespan, principal>>
    /\ IF mpc = "cleanup_archive"
       THEN /\ tasks' = [tasks EXCEPT ![Head(mqueue)] = archive_task(@)]
            /\ mqueue' = Tail(mqueue)
            /\ mpc' = "cleanup"
       ELSE IF mqueue # <<>>
       THEN /\ tasks' = tasks
            /\ IF CompletedBefore(tasks[Head(mqueue)], CleanupHours)
               THEN mpc' = "cleanup_archive" /\ mqueue' = mqueue
               ELSE mpc' = mpc /\ mqueue' = Tail(mqueue)
       ELSE /\ mqueue' \in get_tasks_not_archived
            /\ mpc' = "completed"
            /\ tasks' = tasks

\* process_completed_tasks, a step of its loop: db.refresh and the test of the
\* row (at "completed"), or archive_task for the row that passed the test (at
\* "completed_archive").  After the last row, process_due_tasks begins.
process_completed_tasks ==
    /\ mpc \in {"completed", "completed_archive"}
    /\ last' = NoCall
    /\ UNCHANGED <<now, creating, mnow, mloaded, forced, schedulers, lifespan, principal>>
    /\ IF mpc = "completed_archive"
       THEN /\ tasks' = [tasks EXCEPT ![Head(mqueue)] = archive_task(@)]
            /\ mqueue' = Tail(mqueue)
            /\ mpc' = "completed"
       ELSE IF mqueue # <<>>
       THEN /\ tasks' = tasks
            /\ IF CompletedBefore(tasks[Head(mqueue)], RetentionDays * 24)
               THEN mpc' = "completed_archive" /\ mqueue' = mqueue
               ELSE mpc' = mpc /\ mqueue' = Tail(mqueue)
       ELSE /\ mqueue' = <<>>
            /\ mpc' = "due_query"
            /\ tasks' = tasks

\* The log record of a maintenance step: logger.error / logger.debug
MaintenanceLog(id, detail, pre) == Response("maintenance", id, 0, FALSE, detail, pre)

\* get_due_tasks: `now <= due_date <= tomorrow` compares the aware `now` with
\* the parsed due date; for a naive due date of a task that is neither done
\* nor archived it raises TypeError, which get_due_tasks does not catch.
DueCompareRaises ==
    \E i \in TaskIds : IsNaive(tasks[i].due_date) /\ tasks[i].state \notin {"done", "archived"}

DueRows_any_state == {i \in TaskIds :
              /\ tasks[i].due_date \notin {NoTime, BadDate}
              /\ ~IsNaive(tasks[i].due_date)
              /\ now <= tasks[i].due_date
              /\ tasks[i].due_date <= now + DueWindowDays * 24}

\* get_due_tasks: the rows it returns (not done, not archived, due between now
\* and now + 1 day), in the orders its sort by due date allows.
DueRows == {i \in TaskIds :
              /\ tasks[i].due_date \notin {NoTime, BadDate}
              /\ ~IsNaive(tasks[i].due_date)
              /\ tasks[i].state \notin {"done", "archived"}
              /\ now <= tasks[i].due_date
              /\ tasks[i].due_date <= now + DueWindowDays * 24}

ClearInvalidDueDates_every_due_date ==
    [i \in TaskIds |-> [tasks[i] EXCEPT !.due_date = NoTime]]

\* get_due_tasks also sets an unparseable due_date to None and commits.
ClearInvalidDueDates ==
    [i \in TaskIds |-> IF tasks[i].due_date = BadDate
                       THEN [tasks[i] EXCEPT !.due_date = NoTime]
                       ELSE tasks[i]]

\* process_due_tasks up to its loop: get_due_tasks (when it raises, the
\* exception ends run_maintenance and the session is closed without a commit),
\* the early return when nothing is due, PrinterFactory.create_printer (which
\* may raise: return), now and soon.
process_due_tasks ==
    /\ mpc = "due_query"
    /\ UNCHANGED <<now, creating, mloaded, forced, schedulers, lifespan, principal>>
    /\ IF DueCompareRaises
       THEN /\ tasks' = tasks
            /\ mpc' = "idle" /\ mqueue' = <<>> /\ mnow' = mnow
            /\ last' = MaintenanceLog(0, "Maintenance failed", NULL)
       ELSE /\ tasks' = ClearInvalidDueDates
            /\ \E q \in Orderings(DueRows), printer_ok \in BOOLEAN :
                 IF q = <<>>
                 THEN /\ mpc' = "idle" /\ mqueue' = <<>> /\ mnow' = mnow
                      /\ last' = MaintenanceLog(0, "No due tasks found", NULL)
                 ELSE IF ~printer_ok
                 THEN /\ mpc' = "idle" /\ mqueue' = <<>> /\ mnow' = mnow
                      /\ last' = MaintenanceLog(0, "Failed to initialize printer", NULL)
                 ELSE /\ mpc' = "due" /\ mqueue' = q /\ mnow' = now
                      /\ last' = NoCall

\* process_single_task up to printer.print(task): db.refresh, the parse of the
\* due date (on failure: return), the test due_date <= soon, the print (which
\* may raise: logged, return).  After the last row the run is over.
process_single_task ==
    /\ mpc = "due"
    /\ UNCHANGED <<tasks, now, creating, mnow, forced, schedulers, lifespan, principal>>
    /\ IF mqueue = <<>>
       THEN mpc' = "idle" /\ mqueue' = mqueue /\ last' = NoCall /\ mloaded' = mloaded
       ELSE LET id == Head(mqueue)
                row == tasks[id]
            IN IF row.due_date \in {NoTime, BadDate}
               THEN mpc' = mpc /\ mqueue' = Tail(mqueue) /\ last' = NoCall /\ mloaded' = mloaded
               ELSE IF IsNaive(row.due_date)
               THEN /\ mpc' = mpc /\ mqueue' = Tail(mqueue) /\ mloaded' = mloaded
                    /\ last' = MaintenanceLog(id, "Error processing task: TypeError", row.state)
               ELSE IF row.due_date <= mnow + SoonHours
               THEN \E print_ok \in BOOLEAN :
                       IF print_ok
                       THEN /\ mpc' = "due_write" /\ mqueue' = mqueue /\ mloaded' = <<row>>
                            /\ last' = MaintenanceLog(id, "Printed task", row.state)
                       ELSE /\ mpc' = mpc /\ mqueue' = Tail(mqueue) /\ mloaded' = mloaded
                            /\ last' = MaintenanceLog(id, "Error processing task: printer", row.state)
               ELSE mpc' = mpc /\ mqueue' = Tail(mqueue) /\ last' = NoCall /\ mloaded' = mloaded

\* process_single_task after the print: the payload of update_task(db,
\* task.id, {"state": in_progress, "started_at": now}).  update_task finds the
\* row in the session as db.refresh loaded it before the print and sets the
\* two attributes; the commit writes the columns whose new value differs from
\* the loaded one.  A state loaded as in_progress is therefore not written;
\* started_at, a timestamp of this run, always is.
AutoStartPayload ==
    [Unset EXCEPT !.set = IF mloaded[1].state = "in_progress"
                          THEN {"started_at"}
                          ELSE {"state", "started_at"},
                  !.state = "in_progress",
                  !.started_at = mnow]

\* process_single_task after the print: update_task and its commit, with no
\* test of the state.
process_single_task_update ==
    /\ mpc = "due_write"
    /\ tasks' = [tasks EXCEPT ![Head(mqueue)] = update_task(@, AutoStartPayload)]
    /\ forced' = ForcedAfterUpdate(Head(mqueue), AutoStartPayload)
    /\ mqueue' = Tail(mqueue)
    /\ mpc' = "due"
    /\ mloaded' = <<>>
    /\ last' = NoCall
    /\ UNCHANGED <<now, creating, mnow, schedulers, lifespan, principal>>

\* ------------------------------------------------------------ specification
Init ==
    /\ tasks = <<>>
    /\ now = 0
    /\ creating = <<>>
    /\ last = NoCall
    /\ mpc = "idle"
    /\ mqueue = <<>>
    /\ mnow = 0
    /\ schedulers = <<>>
    /\ lifespan = "init"
    /\ principal = AdminToken
    /\ mloaded = <<>>
    /\ forced = {}

\* The lifecycle endpoints: they take no body
Lifecycle ==
    \/ \E id \in RequestIds : start_task_endpoint(id)
    \/ \E id \in RequestIds : complete_task_endpoint(id)
    \/ \E id \in RequestIds : delete_task_endpoint(id)
    \/ \E id \in RequestIds : reset_task_to_todo_endpoint(id)

\* The steps of a maintenance run
Maintenance ==
    \/ run_maintenance
    \/ cleanup_old_tasks
    \/ process_completed_tasks
    \/ process_due_tasks
    \/ process_single_task
    \/ process_single_task_update

\* Requests and maintenance runs interleaved; the bodies vary the state and
\* the due date.
Next ==
    \/ \E c \in LifecycleCreates : create_new_task(c)
    \/ \E id \in RequestIds, p \in StatePayloads : update_task_endpoint(id, p)
    \/ Lifecycle
    \/ Maintenance
    \/ Tick

Spec == Init /\ [][Next]_vars

\* Requests alone, on one kind of task; the bodies of PATCH vary the state,
\* the text fields and the due date, and the listing varies its filters.
NextUpdate ==
    \/ create_new_task(DefaultCreate)
    \/ \E include_archived \in BOOLEAN, state \in {NULL} \cup TaskState :
         read_tasks(AdminToken, include_archived, state, TRUE)
    \/ \E id \in RequestIds, p \in StatePayloads \cup FieldPayloads :
         update_task_endpoint(id, p)
    \/ Lifecycle

SpecUpdate == Init /\ [][NextUpdate]_vars

\* Requests alone; the bodies vary the creator and the assignment fields, and
\* the listing varies the token.
NextAssign ==
    \/ \E c \in AssignmentCreates : create_new_task(c)
    \/ CreateAssign
    \/ \E id \in RequestIds, p \in {Unset} \cup AssignmentPayloads :
         update_task_endpoint(id, p)
    \/ \E id \in RequestIds : start_task_endpoint(id)
    \/ \E tok \in Tokens, include_created \in BOOLEAN :
         read_tasks(tok, FALSE, NULL, include_created)

SpecAssign == Init /\ [][NextAssign]_vars

\* ------------------------------------------------------- requests by id
\* The dependency of the tasks router on a request: verify_access_token
\* decodes the token and verify_not_superadmin lets its payload through (a
\* superadmin gets 403 and no handler runs).  The handlers by id take no
\* other dependency that reads the token.
router_dependency(tok) ==
    /\ verify_not_superadmin(tok)
    /\ principal' = tok
    /\ UNCHANGED <<tasks, now, creating, last, mpc, mqueue, mnow, mloaded, forced,
                   schedulers, lifespan>>

\* GET /tasks/{task_id}
read_task(id) ==
    /\ UNCHANGED <<tasks, now, creating, mpc, mqueue, mnow, mloaded, forced, schedulers,
                   lifespan, principal>>
    /\ IF ~Exists(id)
       THEN last' = Response("read", id, 404, FALSE, "Task not found", NULL)
       ELSE last' = Response("read", id, Marshal(tasks[id]), FALSE, "", tasks[id].state)

\* Requests by id under the tokens of the users and of the admin, on tasks
\* of every assignment
NextById ==
    \/ \E c \in AssignmentCreates : create_new_task(c)
    \/ CreateAssign
    \/ \E tok \in Tokens : router_dependency(tok)
    \/ \E id \in RequestIds : read_task(id)
    \/ \E id \in RequestIds, p \in StatePayloads : update_task_endpoint(id, p)
    \/ Lifecycle

SpecById == Init /\ [][NextById]_vars

\* The reading endpoints under every token, on tasks of every assignment,
\* without and with a due date; the texts are written out for the search.
NextReading ==
    \/ \E c \in AssignmentCreates, d \in {NoTime, 3} :
         create_new_task([c EXCEPT !.title = <<"a">>, !.description = <<"d">>,
                                   !.due_date = d])
    \/ CreateAssign
    \/ \E tok \in Tokens, include_created \in BOOLEAN :
         read_tasks(tok, FALSE, NULL, include_created)
    \/ \E tok \in Tokens : search_tasks(tok, <<"a">>, FALSE)
    \/ \E tok \in Tokens : read_due_tasks(tok)
    \/ \E tok \in Tokens : get_random_task_endpoint(tok)

SpecReading == Init /\ [][NextReading]_vars

\* ---------------------------------------------------------------- scheduler
\* get_scheduler(): AsyncIOScheduler() and scheduler.start(), on every call;
\* the new instance is the last of the list.
get_scheduler == Append(schedulers, [running |-> TRUE, jobs |-> {}])

\* setup_scheduler(scheduler): add_job(run_maintenance, CronTrigger(hour="*"),
\* id="maintenance_job") on instance k
setup_scheduler(ss, k) == [ss EXCEPT ![k].jobs = @ \cup {"maintenance_job"}]

\* lifespan, before the yield: start_scheduler()
start_scheduler ==
    /\ lifespan = "init"
    /\ schedulers' = setup_scheduler(get_scheduler, Len(schedulers) + 1)
    /\ lifespan' = "running"
    /\ UNCHANGED <<tasks, now, creating, last, mpc, mqueue, mnow, mloaded, forced,
                   principal>>

\* lifespan, after the yield: stop_scheduler(), scheduler.shutdown() on the
\* instance that its own get_scheduler() call returns
stop_scheduler ==
    /\ lifespan = "running"
    /\ schedulers' = [get_scheduler EXCEPT ![Len(schedulers) + 1].running = FALSE]
    /\ lifespan' = "stopped"
    /\ UNCHANGED <<tasks, now, creating, last, mpc, mqueue, mnow, mloaded, forced,
                   principal>>

\* The cron trigger of a running scheduler fires: run_maintenance
maintenance_job ==
    /\ \E k \in DOMAIN schedulers :
          schedulers[k].running /\ "maintenance_job" \in schedulers[k].jobs
    /\ run_maintenance

\* The application from startup to shutdown: requests, the clock, and
\* maintenance runs that the scheduler alone triggers.
NextScheduler ==
    \/ start_scheduler
    \/ stop_scheduler
    \/ maintenance_job
    \/ cleanup_old_tasks
    \/ process_completed_tasks
    \/ process_due_tasks
    \/ process_single_task
    \/ process_single_task_update
    \/ \E c \in LifecycleCreates : create_new_task(c)
    \/ Lifecycle
    \/ Tick

SpecScheduler == Init /\ [][NextScheduler]_vars

\* Random selection: the store holds two tasks, each as create_task stores
\* it, of any of the sampled due dates, and the clock stands at 0 or at 24.
InitRandom ==
    /\ tasks \in {<<NewTask(c1), NewTask(c2)>> : c1 \in RandomCreates, c2 \in RandomCreates}
    /\ now \in {0, 24}
    /\ creating = <<>>
    /\ last = NoCall
    /\ mpc = "idle"
    /\ mqueue = <<>>
    /\ mnow = 0
    /\ schedulers = <<>>
    /\ lifespan = "init"
    /\ principal = AdminToken
    /\ mloaded = <<>>
    /\ forced = {}

NextRandom ==
    \/ get_random_task
    \/ \E tok \in {AdminToken, [role |-> "user", sub |-> 1], [role |-> "superadmin", sub |-> 0]} :
         get_random_task_endpoint(tok)

SpecRandom == InitRandom /\ [][NextRandom]_vars

\* Random selection among tasks that may have been started
NextRandomStarted ==
    \/ NextRandom
    \/ \E id \in RequestIds : start_task_endpoint(id)

SpecRandomStarted == InitRandom /\ [][NextRandomStarted]_vars

\* Maintenance over two stored tasks.  Each is a row as create_task stores it
\* (due at 3, within SoonHours of time 0; due at 20, within the day but not
\* soon; due at 33, within SoonHours of time 30; due at 3 without a UTC
\* offset), a row completed at time 0, or a row created as done with a due
\* date that is no ISO string.
MaintenanceRows ==
    {NewTask([DefaultCreate EXCEPT !.due_date = d]) : d \in {3, 20, 33, Naive(3)}}
    \cup {complete_task(start_task(NewTask([DefaultCreate EXCEPT !.due_date = 3])))}
    \cup {NewTask([DefaultCreate EXCEPT !.state = "done", !.due_date = BadDate])}

InitMaintenance ==
    /\ now = 0
    /\ tasks \in {<<r1, r2>> : r1 \in MaintenanceRows, r2 \in MaintenanceRows}
    /\ creating = <<>>
    /\ last = NoCall
    /\ mpc = "idle"
    /\ mqueue = <<>>
    /\ mnow = 0
    /\ schedulers = <<>>
    /\ lifespan = "init"
    /\ principal = AdminToken
    /\ mloaded = <<>>
    /\ forced = {}

\* Maintenance runs, the clock, and the lifecycle requests of users
NextMaintenance ==
    \/ Maintenance
    \/ Lifecycle
    \/ Tick

SpecMaintenance == InitMaintenance /\ [][NextMaintenance]_vars

\* Maintenance over a store with more tasks than one query of get_tasks
\* returns: ListLimit todo tasks of pairwise different due dates, and one task
\* completed at time 0 whose due date d the order puts before them (1) or
\* after them (none).  The clock stands a day past the retention.
LimitRows(d) ==
    [i \in 1..(ListLimit + 1) |->
        IF i <= ListLimit
        THEN NewTask([DefaultCreate EXCEPT !.due_date = (RetentionDays + 1) * 24 + i])
        ELSE [NewTask([DefaultCreate EXCEPT !.due_date = d])
                EXCEPT !.state = "done", !.started_at = 0, !.completed_at = 0]]

InitLimit ==
    /\ now = (RetentionDays + 1) * 24
    /\ tasks \in {LimitRows(d) : d \in {1, NoTime}}
    /\ creating = <<>>
    /\ last = NoCall
    /\ mpc = "idle"
    /\ mqueue = <<>>
    /\ mnow = 0
    /\ schedulers = <<>>
    /\ lifespan = "init"
    /\ principal = AdminToken
    /\ mloaded = <<>>
    /\ forced = {}

SpecLimit == InitLimit /\ [][Maintenance]_vars

\* Random selection over more tasks than get_tasks returns: ListLimit todo
\* tasks with due dates and one more todo task, due first or without due date.
RandomLimitRows(d) ==
    [LimitRows(d) EXCEPT ![ListLimit + 1] = NewTask([DefaultCreate EXCEPT !.due_date = d])]

InitRandomLimit ==
    /\ now = (RetentionDays + 1) * 24
    /\ tasks \in {RandomLimitRows(d) : d \in {1, NoTime}}
    /\ creating = <<>> /\ last = NoCall /\ mpc = "idle" /\ mqueue = <<>>
    /\ mnow = 0 /\ mloaded = <<>> /\ forced = {}
    /\ schedulers = <<>> /\ lifespan = "init"
    /\ principal = AdminToken

NextRandomLimit ==
    \E tok \in {AdminToken, [role |-> "user", sub |-> 1]} : get_random_task_endpoint(tok)

SpecRandomLimit == InitRandomLimit /\ [][NextRandomLimit]_vars

\* Search: creates with written-out texts, archival, and searches by an
\* administrator, by users 1 and 2 and by a superadmin.
NextSearch ==
    \/ \E c \in SearchCreates : create_new_task(c)
    \/ \E id \in RequestIds : delete_task_endpoint(id)
    \/ \E tok \in {AdminToken, [role |-> "user", sub |-> 1], [role |-> "user", sub |-> 2],
                    [role |-> "superadmin", sub |-> 0]},
          q \in SearchQueries, include_archived \in BOOLEAN :
         search_tasks(tok, q, include_archived)

SpecSearch == Init /\ [][NextSearch]_vars

\* Recurring maintenance.  The scheduler's interval job calls run_maintenance
\* again and again and every call runs to its end (weak fairness of the
\* steps of a run); a printer that works in the end can be created, and
\* prints, in some run whenever runs ask for it again and again (strong
\* fairness of the two steps that succeed).  The clock and the requests of
\* users are under no obligation.
NextRetry ==
    \/ \E d \in {3, 20} : create_new_task([DefaultCreate EXCEPT !.due_date = d])
    \/ Lifecycle
    \/ Maintenance
    \/ Tick

SpecRetry ==
    /\ Init /\ [][NextRetry]_vars
    /\ WF_vars(Maintenance)
    /\ SF_vars(process_due_tasks /\ mpc' = "due")
    /\ SF_vars(process_single_task /\ mpc' = "due_write")

\* =================================================================== claims

\* The transitions the lifecycle allows
AllowedTransition(s, t) ==
    \/ <<s, t>> \in {<<"todo", "in_progress">>, <<"in_progress", "done">>,
                     <<"todo", "archived">>, <<"done", "archived">>}
    \/ s # "todo" /\ t = "todo"

C2_Start ==
    last.op = "start" /\ last.id \in TaskIds
      => /\ last.applied <=> last.pre = "todo"
         /\ last.applied
              => /\ tasks[last.id].state = "in_progress"
                 /\ tasks[last.id].started_at # NoTime
                 /\ tasks[last.id].started_at >= last.at
         /\ last.pre \in {"in_progress", "done", "archived"}
              => last.status = 400 /\ last.detail = "state"

\* C2: a start of a todo task that succeeded.
C2_Witness ==
    /\ last.op = "start" /\ last.applied /\ last.status = 200
    /\ tasks[last.id].state = "in_progress"

\* C3: complete succeeds iff the task's state is in_progress; after a
\* successful complete the state is done and completed_at is set; from todo,
\* done or archived, complete is rejected with 400.
C3_Complete ==
    last.op = "complete" /\ last.id \in TaskIds
      => /\ last.applied <=> last.pre = "in_progress"
         /\ last.applied
              => /\ tasks[last.id].state = "done"
                 /\ tasks[last.id].completed_at # NoTime
         /\ last.pre \in {"todo", "done", "archived"}
              => last.status = 400 /\ last.detail = "state"

\* C3: a complete that succeeded.
C3_Witness ==
    /\ last.op = "complete" /\ last.applied /\ last.status = 200
    /\ tasks[last.id].state = "done"

\* C4: archive succeeds (the state becomes archived) iff the task's state is
\* todo or done; from in_progress it is rejected with a state error, from
\* archived with the distinct error "already archived".
C4_Archive ==
    last.op = "archive" /\ last.id \in TaskIds
      => /\ last.applied <=> last.pre \in {"todo", "done"}
         /\ last.applied => tasks[last.id].state = "archived"
         /\ last.pre = "in_progress" => last.status = 400 /\ last.detail = "state"
         /\ last.pre = "archived"
              => last.status = 400 /\ last.detail = "already archived"

\* C4: an archive of a done task.
C4_Witness ==
    /\ last.op = "archive" /\ last.applied /\ last.pre = "done"
    /\ tasks[last.id].state = "archived"

\* C5: reset_to_todo on an existing task succeeds whatever its state and
\* leaves it in todo with started_at and completed_at null; on an id that
\* does not exist it fails with 404 and changes no task.
C5_Reset ==
    [][\A id \in RequestIds :
          reset_task_to_todo_endpoint(id)
            => IF id \in TaskIds
               THEN /\ last'.applied /\ last'.status # 404
                    /\ tasks'[id].state = "todo"
                    /\ tasks'[id].started_at = NoTime
                    /\ tasks'[id].completed_at = NoTime
               ELSE /\ last'.status = 404 /\ ~last'.applied
                    /\ tasks' = tasks]_vars

\* C5: a reset of an archived task.
C5_Witness ==
    /\ last.op = "reset" /\ last.applied /\ last.pre = "archived"
    /\ tasks[last.id].state = "todo"

\* The relation between a task's state and its timestamps
StateMatchesTimestamps(row) ==
    /\ row.state = "todo" => row.started_at = NoTime /\ row.completed_at = NoTime
    /\ row.state = "in_progress" => row.started_at # NoTime /\ row.completed_at = NoTime
    /\ row.state = "done" => row.started_at # NoTime /\ row.completed_at # NoTime

C8_UpdateExactlyPresentFields ==
    [][\A id \in TaskIds, p \in {Unset} \cup AssignmentPayloads :
          update_task_endpoint(id, p) /\ last'.status = 200
            => /\ tasks'[id].title = tasks[id].title
               /\ tasks'[id].description = tasks[id].description
               /\ tasks'[id].due_date = tasks[id].due_date
               /\ tasks'[id].reward = tasks[id].reward
               /\ tasks'[id].created_by = tasks[id].created_by
               /\ tasks'[id].assignment_type =
                    IF "assignment_type" \in p.set THEN p.assignment_type
                    ELSE tasks[id].assignment_type
               /\ tasks'[id].assigned_to =
                    IF "assigned_to" \in p.set THEN p.assigned_to
                    ELSE tasks[id].assigned_to
               /\ tasks'[id].assigned_users =
                    IF "assigned_user_ids" \in p.set THEN p.assigned_user_ids
                    ELSE tasks[id].assigned_users]_vars

\* The assignment invariant of a stored task
AssignmentInvariant(row) ==
    /\ row.assignment_type = "one"
         <=> row.assigned_to # NoUser /\ row.assigned_users = {}
    /\ row.assignment_type = "some"
         <=> row.assigned_users # {} /\ row.assigned_to = NoUser
    /\ row.assignment_type = "any"
         <=> row.assigned_to = NoUser /\ row.assigned_users = {}

\* C9: after any sequence of creations and updates every stored task
\* satisfies the assignment invariant (a task between the two commits of its
\* creation aside); an update that would violate it is not stored.
C9_AssignmentInvariant ==
    \A i \in TaskIds :
        (creating = <<>> \/ creating[1].id # i) => AssignmentInvariant(tasks[i])

\* C10: an update with assignment_type = some, assigned_to = null and
\* assigned_user_ids = S, S a non-empty set of existing users, leaves the task
\* with type some, no assigned_to and exactly S as its assigned users.
C10_UpdateToSome ==
    [][\A id \in TaskIds, p \in AssignmentPayloads :
          /\ update_task_endpoint(id, p)
          /\ creating = <<>>
          /\ {"assignment_type", "assigned_user_ids"} \subseteq p.set
          /\ p.assignment_type = "some"
          /\ p.assigned_user_ids # {} /\ p.assigned_user_ids \subseteq Users
          => /\ tasks'[id].assignment_type = "some"
             /\ tasks'[id].assigned_to = NoUser
             /\ tasks'[id].assigned_users = p.assigned_user_ids]_vars

\* A body (its set keys) names a user id that is in no row of users
NamesUnknownUser(keys, d) ==
    \/ "created_by" \in keys /\ d.created_by \notin Users
    \/ "assigned_to" \in keys /\ d.assigned_to # NoUser /\ d.assigned_to \notin Users
    \/ "assigned_user_ids" \in keys /\ \E u \in d.assigned_user_ids : u \notin Users

PassesStateFilter(row, include_archived, state) ==
    IF state # NULL THEN row.state = state ELSE include_archived \/ row.state # "archived"

\* The visibility rule for a user principal p
VisibleTo(row, p, include_created) ==
    \/ row.assignment_type = "any"
    \/ row.assignment_type = "one" /\ row.assigned_to = p
    \/ row.assignment_type = "some" /\ p \in row.assigned_users
    \/ include_created /\ row.created_by = p

\* C12: for a user principal p, after any sequence of creates and assignment
\* updates, listing returns a task iff it passes the state/archived filter and
\* is of type any, or of type one with assigned_to = p, or of type some with p
\* among its assigned users, or created by p with include_created true.
C12_ListingVisibility ==
    last.op = "list" /\ last.status # 403 /\ get_current_user(last.token) # NoUser
      => \A i \in TaskIds :
            i \in Range(last.result)
              <=> /\ PassesStateFilter(tasks[i], last.include_archived, last.state)
                  /\ VisibleTo(tasks[i], get_current_user(last.token), last.include_created)

C15_RandomNeverDone ==
    last.op \in {"get_random_task", "random"} /\ last.status # 403
      => /\ last.id # 0 => tasks[last.id].state \notin {"done", "archived"}
         /\ (\A i \in TaskIds : tasks[i].state \notin {"todo", "in_progress"})
              => last.status = 404 /\ last.id = 0

\* A candidate with a due date that has a weight
Dated(i) == tasks[i].due_date \notin {NoTime, BadDate} /\ ~IsNaive(tasks[i].due_date)

\* C16: among the candidates of one selection, a due date that is not later
\* has a weight that is not smaller; an overdue task (due <= now) has the
\* maximum weight; a task with no due date has the minimum weight, which is
\* strictly positive; an overdue task weighs strictly more than a task due in
\* 30 days (720 hours) or more.
C16_WeightMonotone ==
    last.op \in {"get_random_task", "random"} /\ last.id # 0
      => \A i, j \in DOMAIN last.weights :
            /\ Dated(i) /\ Dated(j) /\ tasks[i].due_date <= tasks[j].due_date
                 => last.weights[i] >= last.weights[j]
            /\ Dated(i) /\ tasks[i].due_date <= now
                 => /\ last.weights[i] = 1000 * WeightUnit
                    /\ last.weights[i] >= last.weights[j]
            /\ tasks[i].due_date = NoTime
                 => last.weights[i] > 0 /\ last.weights[i] <= last.weights[j]
            /\ Dated(i) /\ tasks[i].due_date <= now
               /\ Dated(j) /\ tasks[j].due_date >= now + 720
                 => last.weights[i] > last.weights[j]

\* C16: a selection among an overdue task and a task due in 30 days or more.
C16_Witness ==
    /\ last.op = "get_random_task" /\ last.id # 0
    /\ \E i, j \in DOMAIN last.weights :
          /\ Dated(i) /\ tasks[i].due_date <= now
          /\ Dated(j) /\ tasks[j].due_date >= now + 720
          /\ last.weights[i] > last.weights[j]

\* C17: in a maintenance run the archival passes archive a done task whose
\* completed_at is more than 7 days old and change no other task: a done task
\* completed within the last 7 days stays done, and an in_progress or an
\* archived task is left as it is.
C17_RetentionArchival ==
    [][cleanup_old_tasks \/ process_completed_tasks
         => \A i \in TaskIds :
               LET stale == /\ tasks[i].state = "done"
                            /\ tasks[i].completed_at # NoTime
                            /\ tasks[i].completed_at < now - RetentionDays * 24
               IN /\ tasks'[i] # tasks[i] => stale /\ tasks'[i].state = "archived"
                  /\ stale /\ mqueue # <<>> /\ Head(mqueue) = i
                       => \/ tasks'[i].state = "archived"
                          \/ mpc' \in {"cleanup_archive", "completed_archive"}]_vars

\* The printer worked in the step: neither create_printer nor print raised
PrinterWorked == last'.detail \notin {"Failed to initialize printer",
                                      "Error processing task: printer"}

\* The due date of a row is an instant between lo and hi
DueWithin(row, lo, hi) ==
    /\ row.due_date \notin {NoTime, BadDate}
    /\ lo <= Instant(row.due_date) /\ Instant(row.due_date) <= hi

\* C18: in the auto-progress pass, with a working printer, every todo task due
\* within the next 6 hours is taken up by the pass, printed, and then set to
\* in_progress with started_at set; a todo task due later than now + 6 hours
\* is neither printed nor changed.
C18_AutoProgress ==
    [][/\ process_due_tasks /\ PrinterWorked
            => \A i \in TaskIds :
                  tasks[i].state = "todo" /\ DueWithin(tasks[i], now, now + SoonHours)
                    => mpc' = "due" /\ i \in Range(mqueue')
       /\ process_single_task /\ PrinterWorked /\ mqueue # <<>>
            => LET row == tasks[Head(mqueue)]
               IN /\ row.state = "todo" /\ DueWithin(row, mnow, mnow + SoonHours)
                       => mpc' = "due_write"
                  /\ row.state = "todo" /\ DueWithin(row, mnow + SoonHours + 1, MaxTime)
                       => mpc' = "due" /\ tasks' = tasks
       /\ process_single_task_update
            => /\ tasks'[Head(mqueue)].state = "in_progress"
               /\ tasks'[Head(mqueue)].started_at # NoTime]_vars

\* C19: the auto-progress pass takes up the overdue tasks: with a working
\* printer, a todo task whose due date is in the past is among the tasks the
\* pass prints and moves to in_progress.
C19_OverdueProcessed ==
    [][process_due_tasks /\ PrinterWorked /\ ~DueCompareRaises
         => \A i \in TaskIds :
               /\ tasks[i].state = "todo"
               /\ ~IsNaive(tasks[i].due_date)
               /\ DueWithin(tasks[i], 0, now - 1)
               => mpc' = "due" /\ i \in Range(mqueue')]_vars

\* C20: the auto-progress pass skips a task that is already in_progress: it
\* does not print it and leaves its state and its started_at as they are.
C20_InProgressSkipped ==
    [][/\ process_single_task /\ mqueue # <<>>
          /\ tasks[Head(mqueue)].state = "in_progress"
            => mpc' # "due_write"
       /\ process_single_task_update /\ tasks[Head(mqueue)].state = "in_progress"
            => tasks'[Head(mqueue)] = tasks[Head(mqueue)]]_vars

\* A step of the running maintenance job (every one moves mpc or mqueue)
MaintenanceStep == <<mpc, mqueue>>' # <<mpc, mqueue>>

\* C21: a task that is done or archived when the auto-progress pass makes its
\* query is not among the tasks the pass will visit, and the query leaves its
\* state and started_at alone; the pass never adds a task to those it visits,
\* prints only the task at the head of them and writes only that task.  So
\* without a concurrent change such a task is neither printed nor changed in
\* state or started_at, whatever its due date.
C21_DoneArchivedUntouched ==
    [][/\ (mpc = "due_query" /\ MaintenanceStep) =>
            \A i \in TaskIds :
               tasks[i].state \in {"done", "archived"} =>
                  /\ i \notin Range(mqueue')
                  /\ tasks'[i].state = tasks[i].state
                  /\ tasks'[i].started_at = tasks[i].started_at
       /\ (mpc \in {"due", "due_write"} /\ MaintenanceStep) =>
            /\ Range(mqueue') \subseteq Range(mqueue)
            /\ (mpc' = "due_write" => last'.id = Head(mqueue) /\ tasks' = tasks)
            /\ \A i \in TaskIds :
                  (mqueue = <<>> \/ i # Head(mqueue)) => tasks'[i] = tasks[i]]_vars

\* The pass has made its query at time 0 and visits one task; the other one is
\* done, due at 3, and was not taken.
C21_Witness ==
    /\ mpc = "due" /\ last = NoCall /\ mloaded = <<>> /\ now = 0 /\ Len(mqueue) = 1
    /\ \E i \in TaskIds \ Range(mqueue) :
          tasks[i].state = "done" /\ tasks[i].due_date = 3 /\ tasks[i].completed_at = 0

\* What a print that raises leaves behind: the task as it was, and the pass at
\* the next task of its list.
PrintErrorHandled ==
    (mpc = "due" /\ last'.detail = "Error processing task: printer") =>
        /\ tasks' = tasks
        /\ mpc' = "due"
        /\ mqueue' = Tail(mqueue)

\* C22 (as amended): if the printer raises while the auto-progress pass
\* handles a task, no task is changed and the pass goes on to the rest of its
\* list; if the printer cannot be created, the pass ends and the only change
\* it has made is that of its query, which sets a due date that is no ISO
\* string to None.
C22_PrinterFailure ==
    [][/\ PrintErrorHandled
       /\ (mpc = "due_query" /\ last'.detail = "Failed to initialize printer") =>
            /\ mpc' = "idle"
            /\ \A i \in TaskIds :
                  \/ tasks'[i] = tasks[i]
                  \/ /\ tasks[i].due_date = BadDate
                     /\ tasks'[i] = [tasks[i] EXCEPT !.due_date = NoTime]]_vars

\* C22 (as stated): ... if the printer cannot be created at all, no task is
\* changed by the pass.
C22_PrinterFailureNoChange ==
    [][/\ PrintErrorHandled
       /\ (mpc = "due_query" /\ last'.detail = "Failed to initialize printer") =>
            /\ mpc' = "idle"
            /\ tasks' = tasks]_vars

\* The print of a todo task has raised; the task is as it was and the pass has
\* another task to visit.
C22_Witness ==
    /\ mpc = "due" /\ last.detail = "Error processing task: printer"
    /\ tasks[last.id].state = "todo" /\ tasks[last.id].started_at = NoTime
    /\ mqueue # <<>> /\ last.id \notin Range(mqueue)

\* C23: creating a task of type some with assigned users is atomic: no listing
\* returns the task while it is stored with an empty set of assigned users,
\* that is between the two commits of create_task.
C23_AtomicCreate ==
    (last.op = "list" /\ creating # <<>>) =>
        \A i \in Range(last.result) :
           creating[1].id = i => tasks[i].assigned_users # {}

C25_SearchBySubstring ==
    [][(last' # last /\ last'.op = "search" /\ verify_not_superadmin(last'.token)) =>
          /\ last'.status = 200
          /\ Range(last'.result) =
               {i \in TaskIds :
                  /\ \E listed \in get_tasks(last'.include_archived, NULL,
                                              get_current_user(last'.token), TRUE) :
                        i \in Range(listed)
                  /\ \/ Contains(lower(last'.q), lower(tasks[i].title))
                     \/ Contains(lower(last'.q), lower(tasks[i].description))}]_vars

\* C26: a todo task whose print has failed is printed, and so leaves todo, in
\* the end, given recurring runs and a printer that works in the end; it is
\* not dropped, for one when its due date has passed.
C26_FailedPrintRetried ==
    (last.detail = "Error processing task: printer" /\ last.id = 1 /\ tasks[1].state = "todo")
      ~> (Len(tasks) >= 1 /\ tasks[1].state # "todo")

\* C27: maintenance is best-effort per task.  A failure with one task does not
\* keep the auto-progress pass from the other tasks: with a working printer
\* the pass takes up every task that is neither done nor archived and whose
\* due date is an instant of the next day, whatever the other tasks are; after
\* a failure in process_single_task the pass is at the next task of its list;
\* and no step of a run ends the run with "Maintenance failed".
C27_BestEffortPerTask ==
    [][/\ (process_due_tasks /\ PrinterWorked) =>
            \A i \in TaskIds :
               /\ tasks[i].state \notin {"done", "archived"}
               /\ ~IsNaive(tasks[i].due_date)
               /\ DueWithin(tasks[i], now, now + DueWindowDays * 24)
               => mpc' = "due" /\ i \in Range(mqueue')
       /\ (process_single_task
             /\ last'.detail \in {"Error processing task: printer",
                                  "Error processing task: TypeError"}) =>
            mpc' = "due" /\ mqueue' = Tail(mqueue)
       /\ MaintenanceStep => last'.detail # "Maintenance failed"]_vars

\* C28: within a run the archival is over before the auto-progress pass
\* begins.  The auto-progress pass begins only from process_completed_tasks
\* with its list exhausted; the two archival passes are entered only from the
\* start of a run and from each other; a step of a run archives a task only
\* in an archival pass, and prints or starts one only in the auto-progress
\* pass.
C28_ArchivalBeforeAutoProgress ==
    [][MaintenanceStep =>
         /\ mpc' = "due_query" => mpc = "completed" /\ mqueue = <<>>
         /\ mpc' \in {"cleanup", "cleanup_archive"}
              => mpc \in {"idle", "cleanup", "cleanup_archive"}
         /\ mpc' \in {"completed", "completed_archive"}
              => mpc \in {"cleanup", "completed", "completed_archive"}
         /\ mpc' \in {"due", "due_write"} => mpc \in {"due_query", "due", "due_write"}
         /\ \A i \in TaskIds :
               /\ (tasks'[i].state = "archived" /\ tasks[i].state # "archived")
                    => mpc \in {"cleanup_archive", "completed_archive"}
               /\ (tasks'[i].state = "in_progress" /\ tasks[i].state # "in_progress")
                    => mpc = "due_write"]_vars

\* A run at time 30 has printed a task, and a task completed at time 0 is
\* archived.
C28_Witness ==
    /\ mpc = "due_write" /\ mnow = 30 /\ now = 30
    /\ \E i \in TaskIds : tasks[i].state = "archived" /\ tasks[i].completed_at = 0

\* C29: the auto-progress pass acts on the state it re-reads: a task that a
\* request has made done or archived since the pass's query is not printed,
\* and the write of the pass never sets to in_progress a task that is done or
\* archived when it is written.
C29_NoStartOfDoneOrArchived ==
    [][/\ (process_single_task /\ mqueue # <<>>
             /\ tasks[Head(mqueue)].state \in {"done", "archived"})
            => mpc' # "due_write"
       /\ (process_single_task_update
             /\ tasks[Head(mqueue)].state \in {"done", "archived"})
            => tasks'[Head(mqueue)].state # "in_progress"]_vars

\* C30: the archival passes archive only tasks that are done when they are
\* written: a task that a request has reset to todo (or reset and started)
\* since the pass took it for a stale completion is not archived.
C30_ArchivesOnlyDone ==
    [][(cleanup_old_tasks \/ process_completed_tasks) =>
          \A i \in TaskIds :
             (tasks'[i].state = "archived" /\ tasks[i].state # "archived")
                => tasks[i].state = "done"]_vars

\* C31: the archival covers every task: when the archival passes of a run are
\* over, no task of the store is done with a completed_at older than the
\* retention, however many tasks there are and however they are ordered.
C31_ArchivalCoversEveryTask ==
    mpc \in {"due_query", "due", "due_write"} =>
        \A i \in TaskIds : ~CompletedBefore(tasks[i], RetentionDays * 24)

\* C32: every candidate is selectable: after GET /tasks/random/ has drawn,
\* every todo or in_progress task that the caller may see, one without due
\* date included, was among the candidates of the draw with a weight
\* strictly above 0.
C32_EveryCandidateSelectable ==
    last.op = "random" /\ last.status # 403
      => \A i \in TaskIds :
            /\ tasks[i].state \in {"todo", "in_progress"}
            /\ get_current_user(last.token) # NoUser
                 => visibility_filter(tasks[i], get_current_user(last.token), TRUE)
            => i \in DOMAIN last.weights /\ last.weights[i] > 0

\* C33: the selection is biased toward tasks that are not started: of two
\* candidates of one draw with the same due date, one todo and one
\* in_progress, the todo one has the strictly greater weight.
C33_TodoWeighsMore ==
    last.op \in {"get_random_task", "random"} /\ last.id # 0
      => \A i, j \in DOMAIN last.weights :
            /\ tasks[i].state = "todo" /\ tasks[j].state = "in_progress"
            /\ Dated(i) /\ tasks[i].due_date = tasks[j].due_date
            => last.weights[i] > last.weights[j]

\* C34: every mutation of a task (start, complete, archive, reset, partial
\* update, the auto-start and the archival of a maintenance run) leaves the
\* task with an updated_at that is not earlier than the one it had.
C34_UpdatedAtRefreshed ==
    [][\A i \in TaskIds :
          i \in DOMAIN tasks' /\ tasks'[i] # tasks[i]
            => /\ "updated_at" \in DOMAIN tasks'[i]
               /\ "updated_at" \in DOMAIN tasks[i]
                    => tasks'[i].updated_at >= tasks[i].updated_at]_vars

\* C35: a rejected operation changes nothing: when start, complete or
\* archive is refused because of the state of the task, or when an operation
\* by id names no stored task, every task has the state, the started_at and
\* the completed_at it had before.
C35_RejectedChangesNothing ==
    [][/\ last' # last
       /\ last'.op \in {"start", "complete", "archive", "reset", "update", "read"}
       /\ \/ last'.status = 404
          \/ /\ last'.op \in {"start", "complete", "archive"}
             /\ last'.status = 400
             /\ last'.detail \in {"state", "already archived"}
       => /\ Len(tasks') = Len(tasks)
          /\ \A i \in TaskIds :
                /\ tasks'[i].state = tasks[i].state
                /\ tasks'[i].started_at = tasks[i].started_at
                /\ tasks'[i].completed_at = tasks[i].completed_at]_vars

\* C35: a stored task whose completion was refused because of its state.
C35_Witness ==
    /\ last.op = "complete" /\ last.status = 400 /\ last.detail = "state"
    /\ Exists(last.id) /\ tasks[last.id].state # "in_progress"

\* C36: the shutdown of the application stops the recurring job: once
\* stop_scheduler has returned, no scheduler that holds the maintenance job
\* is running.
C36_ShutdownStopsJob ==
    lifespan = "stopped"
      => \A k \in DOMAIN schedulers :
            "maintenance_job" \in schedulers[k].jobs => ~schedulers[k].running

\* C37: the visibility holds for the operations by id: a request of a user
\* to whom a task is not visible (its type is not any, it is not assigned to
\* the user, the user is not in its assigned set and has not created it)
\* neither gets the task from GET /tasks/{id} nor changes it through start,
\* complete, archive, reset or update.
C37_VisibilityById ==
    [][/\ principal' = principal
       /\ principal.role = "user" /\ get_current_user(principal) # NoUser
       /\ last' # last
       /\ last'.op \in {"read", "start", "complete", "archive", "reset", "update"}
       /\ Exists(last'.id)
       /\ ~visibility_filter(tasks[last'.id], get_current_user(principal), TRUE)
       => last'.status # 200 /\ tasks' = tasks]_vars

\* The tasks that a response of a reading endpoint returns
Returned(r) ==
    IF r.op = "random" THEN (IF r.id # 0 THEN {r.id} ELSE {}) ELSE Range(r.result)

\* C38: a request with a token of role user never gets the unrestricted
\* view: whatever the subject of the token, every task that listing, search,
\* due or random returns passes the visibility rule for the user of the
\* token; when the subject resolves to no user, only the tasks of type any,
\* which every user may see, are returned.
C38_UserTokenRestricted ==
    [][/\ last' # last
       /\ last'.op \in {"list", "search", "due", "random"}
       /\ last'.token.role = "user"
       => \A i \in Returned(last') :
             \/ tasks[i].assignment_type = "any"
             \/ /\ get_current_user(last'.token) # NoUser
                /\ visibility_filter(tasks[i], get_current_user(last'.token),
                                     IF last'.op = "list" THEN last'.include_created
                                     ELSE TRUE)]_vars

====
